---- MODULE Spec2Model ----
(***************************************************************************)
(* Model of Project2.py: iterative-deepening depth-first search on a      *)
(* coloured grid maze in which every cell forces one exit direction.      *)
(*                                                                         *)
(* Python strings are modelled as sequences of one-character strings, so  *)
(* that slicing (token[2:], token[:1]), upper(), f"{count}{cur_dir}" and  *)
(* ' '.join(...) are computed as the code computes them.                  *)
(***************************************************************************)
EXTENDS Integers, Sequences, FiniteSets, TLC

VARIABLES graph, rows, cols, max_depth, stack, current, row, col,
          cur_dir, cur_color, count, result, outcome, attempts, pc

vars == <<graph, rows, cols, max_depth, stack, current, row, col,
          cur_dir, cur_color, count, result, outcome, attempts, pc>>

(***************************************************************************)
(* Bounds of the checked input family.                                     *)
(***************************************************************************)
\* Generated grids have at most this many cells (rows * cols).
MaxCells == 4

(***************************************************************************)
(* Strings.                                                                *)
(***************************************************************************)
RECURSIVE PyStr(_)
\* str(n) for n >= 0, as used by f"{count}..."
PyStr(n) ==
    LET d == <<"0", "1", "2", "3", "4", "5", "6", "7", "8", "9">>
    IN  IF n < 10 THEN <<d[n + 1]>> ELSE PyStr(n \div 10) \o <<d[(n % 10) + 1]>>

\* str.upper() on one character
UpperChar(ch) ==
    CASE ch = "n" -> "N"
      [] ch = "e" -> "E"
      [] ch = "s" -> "S"
      [] ch = "w" -> "W"
      [] ch = "o" -> "O"
      [] ch = "x" -> "X"
      [] ch = "b" -> "B"
      [] ch = "r" -> "R"
      [] OTHER -> ch

\* str.upper()
Upper(s) == [i \in 1..Len(s) |-> UpperChar(s[i])]

\* s[2:] and s[:1]
SliceFrom2(s) == SubSeq(s, 3, Len(s))
SliceTo1(s) == SubSeq(s, 1, 1)

RECURSIVE Join_NoSeparator(_)
\* Join with ''.join(labels)
Join_NoSeparator(labels) ==
    IF Len(labels) = 0 THEN <<>> ELSE labels[1] \o Join_NoSeparator(Tail(labels))

RECURSIVE Join(_)
\* ' '.join(labels)
Join(labels) ==
    IF Len(labels) = 0 THEN <<>>
    ELSE IF Len(labels) = 1 THEN labels[1]
    ELSE labels[1] \o <<" ">> \o Join(Tail(labels))

\* Label with the count taken from range(max_depth) instead of range(1, ...)
Label_FromZero(n, dir) == PyStr(n - 1) \o dir

\* f"{count}{cur_dir}"
Label(n, dir) == PyStr(n) \o dir

(***************************************************************************)
(* The direction table and the pure helpers.                               *)
(***************************************************************************)
directions ==
    (<<"N">> :> <<-1, 0>>) @@ (<<"N", "E">> :> <<-1, 1>>) @@
    (<<"N", "W">> :> <<-1, -1>>) @@ (<<"S">> :> <<1, 0>>) @@
    (<<"S", "E">> :> <<1, 1>>) @@ (<<"S", "W">> :> <<1, -1>>) @@
    (<<"E">> :> <<0, 1>>) @@ (<<"W">> :> <<0, -1>>) @@
    (<<"O">> :> <<0, 0>>)

\* DirectionLookup as directions.get(key, (0, 0)): an unknown key is no movement
DirectionLookup_Default(key) ==
    IF key \in DOMAIN directions THEN <<directions[key]>> ELSE <<<<0, 0>>>>

\* the dict lookup directions[key]: <<value>>, or <<>> when it raises KeyError
DirectionLookup(key) ==
    IF key \in DOMAIN directions THEN <<directions[key]>> ELSE <<>>

\* get_next_position: the pair <<row + di, col + dj>>, or <<>> when the
\* lookup raises KeyError
get_next_position(direction, r, c) ==
    LET hit == DirectionLookup(Upper(direction))
    IN  IF hit = <<>> THEN <<>> ELSE <<r + hit[1][1], c + hit[1][2]>>

is_valid_bound(r, c, final_rows, final_cols) ==
    0 <= r /\ r < final_rows /\ 0 <= c /\ c < final_cols

Abs(x) == IF x < 0 THEN -x ELSE x

manhattan_distance(r, c, target_row, target_col) ==
    Abs(target_row - r) + Abs(target_col - c)

(***************************************************************************)
(* Search nodes.                                                           *)
(***************************************************************************)
MazeNode(r, c, explored, path, depth) ==
    [row |-> r, col |-> c, explored |-> explored, path |-> path, depth |-> depth]

\* set(t) for a tuple t: the set of the tuple's elements.  A scalar element
\* x is written <<x>> so that it can share a set with positions <<r, c>>.
PySetOfTuple(t) == {<<t[i]>> : i \in 1..Len(t)}

\* InitialStack with a visited set that outlives the call: it still holds
\* what the node expanded last had visited
InitialStack_Carried ==
    <<MazeNode(0, 0, PySetOfTuple(<<0, 0>>) \cup current.explored, <<>>, 1)>>

\* stack = [MazeNode(0, 0, set((0, 0)), [], 1)]
InitialStack == <<MazeNode(0, 0, PySetOfTuple(<<0, 0>>), <<>>, 1)>>

\* the locals of a frame that has not assigned them yet
NoNode == MazeNode(0, 0, {}, <<>>, 0)

Sentinel ==
    <<"N", "o", " ", "s", "o", "l", "u", "t", "i", "o", "n", " ",
      "f", "o", "u", "n", "d", " ", "w", "i", "t", "h", "i", "n", " ",
      "t", "h", "e", " ", "d", "e", "p", "t", "h", " ",
      "l", "i", "m", "i", "t", ".">>

(***************************************************************************)
(* The grids the search is run on.  A token is "<color>-<direction>" or   *)
(* the bare marker "O", as split() leaves it.                             *)
(***************************************************************************)
Tok(color, dir) == <<color, "-">> \o dir

\* tokens of the cells other than the target in the generated grids
Tokens ==
    { Tok("B", <<"E">>), Tok("R", <<"E">>), Tok("B", <<"S">>), Tok("R", <<"s">>),
      Tok("R", <<"W">>), Tok("B", <<"N">>), Tok("R", <<"S", "W">>),
      Tok("B", <<"N", "E">>), Tok("B", <<"S", "E">>),
      Tok("B", <<"O">>), Tok("R", <<"X">>), <<"O">> }

\* the token of the target cell in the generated grids (the named grids
\* carry the bare marker "O" there)
TargetTokens == { Tok("B", <<"O">>) }

\* the shapes rows x cols of the generated grids
Shapes == { <<r, c>> \in (1..MaxCells) \X (1..MaxCells) : r * c <= MaxCells }

\* the cells of an r x c grid other than the target
OtherCells(r, c) == ((0..(r - 1)) \X (0..(c - 1))) \ {<<r - 1, c - 1>>}

\* the r x c grid with token f[<<i, j>>] at (i, j) and token t at the target
GridOf(r, c, f, t) ==
    [i \in 0..(r - 1) |-> [j \in 0..(c - 1) |->
        IF <<i, j>> = <<r - 1, c - 1>> THEN t ELSE f[<<i, j>>]]]

\* the tokens the target of an r x c grid is drawn from (in a 1 x 1 grid it
\* is the origin too)
TargetTokensOf(r, c) ==
    IF r = 1 /\ c = 1 THEN Tokens \cup TargetTokens ELSE TargetTokens

\* a grid written as in the input file, row by row
GridOfRows(lines) ==
    [i \in 0..(Len(lines) - 1) |-> [j \in 0..(Len(lines[1]) - 1) |-> lines[i + 1][j + 1]]]

\* the example of the module docstring (lines 23-27)
ExampleGrid ==
    GridOfRows(<<
      <<Tok("B", <<"S">>), Tok("R", <<"E">>), Tok("B", <<"S", "E">>), Tok("B", <<"S", "W">>)>>,
      <<Tok("R", <<"E">>), Tok("B", <<"E">>), Tok("R", <<"S">>), Tok("R", <<"S">>)>>,
      <<Tok("R", <<"N">>), Tok("R", <<"N", "E">>), Tok("B", <<"N">>), <<"O">>>> >>)

\* a 2 x 5 grid whose only way to the target passes (1,0), which the
\* Manhattan test admits at max_depth 7 only
DetourGrid ==
    GridOfRows(<<
      <<Tok("B", <<"E">>), Tok("R", <<"E">>), Tok("R", <<"W">>), Tok("B", <<"S">>), Tok("B", <<"N">>)>>,
      <<Tok("B", <<"E">>), Tok("R", <<"O">>), Tok("R", <<"O">>), Tok("R", <<"W">>), <<"O">>>> >>)

\* a 2 x 3 grid with the two-label way "1S 2E"
ShortcutGrid ==
    GridOfRows(<<
      <<Tok("B", <<"S">>), Tok("B", <<"O">>), Tok("B", <<"O">>)>>,
      <<Tok("R", <<"E">>), Tok("B", <<"O">>), <<"O">>>> >>)

\* a 3 x 2 grid with the way "1S 1SE" and a cell (0,1) of unknown direction
\* that is reached four steps deep
LateErrorGrid ==
    GridOfRows(<<
      <<Tok("R", <<"S">>), Tok("B", <<"X">>)>>,
      <<Tok("B", <<"S", "E">>), Tok("R", <<"N">>)>>,
      <<Tok("B", <<"N", "E">>), <<"O">>>> >>)

NamedGrids == { ExampleGrid, DetourGrid, ShortcutGrid, LateErrorGrid }

NumRows(g) == Cardinality(DOMAIN g)
NumCols(g) == Cardinality(DOMAIN g[0])

(***************************************************************************)
(* The program: solve_maze_from_file -> iterative_deepening_dfs ->         *)
(* explore_maze_depth_limited.                                             *)
(***************************************************************************)
\* the ceiling taken as the Manhattan distance from the origin to the target
max_depth_limit_Manhattan == (rows - 1) + (cols - 1)

\* line 247
max_depth_limit == rows * cols
target_row == rows - 1
target_col == cols - 1

Init ==
    /\ \/ graph \in NamedGrids
       \/ \E s \in Shapes :
            \E f \in [OtherCells(s[1], s[2]) -> Tokens], t \in TargetTokensOf(s[1], s[2]) :
               graph = GridOf(s[1], s[2], f, t)
    /\ rows = NumRows(graph)
    /\ cols = NumCols(graph)
    /\ max_depth = 1
    /\ stack = <<>>
    /\ current = NoNode
    /\ row = 0
    /\ col = 0
    /\ cur_dir = <<>>
    /\ cur_color = <<>>
    /\ count = 0
    /\ result = <<>>
    /\ outcome = "running"
    /\ attempts = <<>>
    /\ pc = "driver"

\* lines 251-253 and 187: the while test holds, the Explorer is entered
\* and builds its stack
CallExplorer ==
    /\ pc = "driver"
    /\ max_depth <= max_depth_limit
    /\ stack' = InitialStack
    /\ current' = NoNode
    /\ row' = 0
    /\ col' = 0
    /\ cur_dir' = <<>>
    /\ cur_color' = <<>>
    /\ count' = 0
    /\ pc' = "explore"
    /\ UNCHANGED <<graph, rows, cols, max_depth, result, outcome, attempts>>

\* lines 251, 258: the while test fails
Exhausted ==
    /\ pc = "driver"
    /\ max_depth > max_depth_limit
    /\ result' = Sentinel
    /\ outcome' = "exhausted"
    /\ pc' = "done"
    /\ UNCHANGED <<graph, rows, cols, max_depth, stack, current, row, col,
                   cur_dir, cur_color, count, attempts>>

\* lines 189-193: pop a node, read its cell
Pop ==
    /\ pc = "explore"
    /\ stack # <<>>
    /\ LET node == stack[Len(stack)]
       IN  /\ current' = node
           /\ row' = node.row
           /\ col' = node.col
           /\ cur_dir' = SliceFrom2(graph[node.row][node.col])
           /\ cur_color' = SliceTo1(graph[node.row][node.col])
    /\ stack' = SubSeq(stack, 1, Len(stack) - 1)
    /\ count' = 1
    /\ pc' = "step"
    /\ UNCHANGED <<graph, rows, cols, max_depth, result, outcome, attempts>>

\* ExplorerFails with the depth raised by two
ExplorerFails_SkipDepth ==
    /\ pc = "explore"
    /\ stack = <<>>
    /\ attempts' = Append(attempts, [depth |-> max_depth, found |-> FALSE])
    /\ max_depth' = max_depth + 2
    /\ pc' = "driver"
    /\ UNCHANGED <<graph, rows, cols, stack, current, row, col, cur_dir,
                   cur_color, count, result, outcome>>

\* ExplorerFails without the increment of line 256
ExplorerFails_NoDeepen ==
    /\ pc = "explore"
    /\ stack = <<>>
    /\ attempts' = Append(attempts, [depth |-> max_depth, found |-> FALSE])
    /\ max_depth' = max_depth
    /\ pc' = "driver"
    /\ UNCHANGED <<graph, rows, cols, stack, current, row, col, cur_dir,
                   cur_color, count, result, outcome>>

\* lines 189, 226, 254, 256: the stack is empty, the Explorer returns None
\* and the Driver deepens
ExplorerFails ==
    /\ pc = "explore"
    /\ stack = <<>>
    /\ attempts' = Append(attempts, [depth |-> max_depth, found |-> FALSE])
    /\ max_depth' = max_depth + 1
    /\ pc' = "driver"
    /\ UNCHANGED <<graph, rows, cols, stack, current, row, col, cur_dir,
                   cur_color, count, result, outcome>>

\* what line 197 computes for the current count
NextPair == get_next_position(cur_dir, row, col)

\* line 197 -> 92: directions[direction] raises KeyError, which leaves
\* explore_maze_depth_limited, iterative_deepening_dfs and solve_maze_from_file
StepKeyError ==
    /\ pc = "step"
    /\ NextPair = <<>>
    /\ outcome' = "KeyError"
    /\ pc' = "done"
    /\ UNCHANGED <<graph, rows, cols, max_depth, stack, current, row, col,
                   cur_dir, cur_color, count, result, attempts>>

\* StepOutOfBounds that gives up the whole Explorer call: the stack is emptied
StepOutOfBounds_Abort ==
    /\ pc = "step"
    /\ NextPair # <<>>
    /\ ~is_valid_bound(NextPair[1], NextPair[2], rows, cols)
    /\ stack' = <<>>
    /\ pc' = "explore"
    /\ UNCHANGED <<graph, rows, cols, max_depth, current, row, col,
                   cur_dir, cur_color, count, result, outcome, attempts>>

\* lines 201-202: out of bounds, break; back to the while test
StepOutOfBounds ==
    /\ pc = "step"
    /\ NextPair # <<>>
    /\ ~is_valid_bound(NextPair[1], NextPair[2], rows, cols)
    /\ pc' = "explore"
    /\ UNCHANGED <<graph, rows, cols, max_depth, stack, current, row, col,
                   cur_dir, cur_color, count, result, outcome, attempts>>

\* StepTarget that returns the path only while the node's depth is below
\* max_depth, and otherwise ends the stepping loop of the node
StepTarget_DepthChecked ==
    /\ pc = "step"
    /\ NextPair # <<>>
    /\ is_valid_bound(NextPair[1], NextPair[2], rows, cols)
    /\ NextPair[1] = target_row /\ NextPair[2] = target_col
    /\ IF current.depth < max_depth
       THEN /\ result' = Join(Append(current.path, Label(count, cur_dir)))
            /\ outcome' = "found"
            /\ attempts' = Append(attempts, [depth |-> max_depth, found |-> TRUE])
            /\ pc' = "done"
       ELSE /\ result' = result
            /\ outcome' = outcome
            /\ attempts' = attempts
            /\ pc' = "explore"
    /\ UNCHANGED <<graph, rows, cols, max_depth, stack, current, row, col,
                   cur_dir, cur_color, count>>

\* lines 207-210 and 254-256: the target is reached and the joined path is
\* returned to the Driver, which returns it when it is truthy (not "") and
\* deepens otherwise
StepTarget ==
    /\ pc = "step"
    /\ NextPair # <<>>
    /\ is_valid_bound(NextPair[1], NextPair[2], rows, cols)
    /\ NextPair[1] = target_row /\ NextPair[2] = target_col
    /\ LET final_path == Join(Append(current.path, Label(count, cur_dir)))
       IN  IF final_path # <<>>
           THEN /\ result' = final_path
                /\ outcome' = "found"
                /\ attempts' = Append(attempts, [depth |-> max_depth, found |-> TRUE])
                /\ max_depth' = max_depth
                /\ pc' = "done"
           ELSE /\ result' = result
                /\ outcome' = outcome
                /\ attempts' = Append(attempts, [depth |-> max_depth, found |-> FALSE])
                /\ max_depth' = max_depth + 1
                /\ pc' = "driver"
    /\ UNCHANGED <<graph, rows, cols, stack, current, row, col,
                   cur_dir, cur_color, count>>

\* MayBranch without the colour test
MayBranch_NoColor(next_color, next_pair) ==
    /\ next_pair \notin current.explored
    /\ current.depth < max_depth

\* line 213: the test that lets a child node be built
MayBranch(next_color, next_pair) ==
    /\ next_color # cur_color
    /\ next_pair \notin current.explored
    /\ current.depth < max_depth

\* Admitted with < in place of <=
Admitted_Strict(next_pair) ==
    manhattan_distance(next_pair[1], next_pair[2], target_row, target_col)
        < max_depth - count

\* line 221: the Manhattan test that admits the child to the stack
Admitted(next_pair) ==
    manhattan_distance(next_pair[1], next_pair[2], target_row, target_col)
        <= max_depth - count

\* lines 214-218
NextNode(next_pair) ==
    MazeNode(next_pair[1], next_pair[2], current.explored \cup {next_pair},
             Append(current.path, Label(count, cur_dir)), current.depth + 1)

\* lines 204-224: an in-bounds cell that is not the target; the cursor moves
\* on and the for loop goes to its next count, or ends after max_depth
StepAdvance ==
    /\ pc = "step"
    /\ NextPair # <<>>
    /\ is_valid_bound(NextPair[1], NextPair[2], rows, cols)
    /\ ~(NextPair[1] = target_row /\ NextPair[2] = target_col)
    /\ LET next_color == SliceTo1(graph[NextPair[1]][NextPair[2]])
       IN  stack' = IF MayBranch(next_color, NextPair) /\ Admitted(NextPair)
                    THEN Append(stack, NextNode(NextPair))
                    ELSE stack
    /\ row' = NextPair[1]
    /\ col' = NextPair[2]
    /\ IF count < max_depth
       THEN count' = count + 1 /\ pc' = "step"
       ELSE count' = count /\ pc' = "explore"
    /\ UNCHANGED <<graph, rows, cols, max_depth, current, cur_dir, cur_color,
                   result, outcome, attempts>>

(***************************************************************************)
(* explore_maze_depth_limited as a function of the grid and max_depth:     *)
(* lines 187-226 run to the end.  with_test = FALSE drops the Manhattan    *)
(* test of line 221 and leaves every other rule as it is.                  *)
(***************************************************************************)
RECURSIVE ExpandFrom(_, _, _, _, _, _, _)
\* lines 195-224 for the popped node, from the cursor (r, c) and count cnt:
\* the path returned, the KeyError raised, or the children pushed
ExpandFrom(node, r, c, cnt, max_d, with_test, pushed) ==
    LET dir == SliceFrom2(graph[node.row][node.col])
        color == SliceTo1(graph[node.row][node.col])
        next_pair == get_next_position(dir, r, c)
    IN  IF cnt > max_d THEN [kind |-> "open", path |-> <<>>, pushed |-> pushed]
        ELSE IF next_pair = <<>> THEN [kind |-> "KeyError", path |-> <<>>, pushed |-> pushed]
        ELSE IF ~is_valid_bound(next_pair[1], next_pair[2], rows, cols)
             THEN [kind |-> "open", path |-> <<>>, pushed |-> pushed]
        ELSE IF next_pair[1] = target_row /\ next_pair[2] = target_col
             THEN [kind |-> "found",
                   path |-> Join(Append(node.path, Label(cnt, dir))),
                   pushed |-> pushed]
        ELSE LET next_color == SliceTo1(graph[next_pair[1]][next_pair[2]])
                 branch == /\ next_color # color
                           /\ next_pair \notin node.explored
                           /\ node.depth < max_d
                 admit == \/ ~with_test
                          \/ manhattan_distance(next_pair[1], next_pair[2],
                                                target_row, target_col) <= max_d - cnt
                 child == MazeNode(next_pair[1], next_pair[2],
                                   node.explored \cup {next_pair},
                                   Append(node.path, Label(cnt, dir)), node.depth + 1)
             IN  ExpandFrom(node, next_pair[1], next_pair[2], cnt + 1, max_d, with_test,
                            IF branch /\ admit THEN Append(pushed, child) ELSE pushed)

RECURSIVE ExploreStack(_, _, _)
\* lines 189-226: the while loop on the stack st
ExploreStack(st, max_d, with_test) ==
    IF st = <<>> THEN [kind |-> "none", path |-> <<>>]
    ELSE LET node == st[Len(st)]
             e == ExpandFrom(node, node.row, node.col, 1, max_d, with_test, <<>>)
         IN  IF e.kind = "open"
             THEN ExploreStack(SubSeq(st, 1, Len(st) - 1) \o e.pushed, max_d, with_test)
             ELSE [kind |-> e.kind, path |-> e.path]

\* explore_maze_depth_limited(graph, rows, cols, max_d, rows - 1, cols - 1)
explore_maze_depth_limited(max_d, with_test) ==
    ExploreStack(<<MazeNode(0, 0, PySetOfTuple(<<0, 0>>), <<>>, 1)>>, max_d, with_test)

Next ==
    \/ CallExplorer
    \/ Exhausted
    \/ Pop
    \/ ExplorerFails
    \/ StepKeyError
    \/ StepOutOfBounds
    \/ StepTarget
    \/ StepAdvance

Spec == Init /\ [][Next]_vars

\* the program is sequential and runs on: a step that can be taken is taken
LiveSpec == Spec /\ WF_vars(Next)

(***************************************************************************)
(* Reading a returned path back: the labels, and the walk they describe.   *)
(***************************************************************************)
IsDigit(ch) == ch \in {"0", "1", "2", "3", "4", "5", "6", "7", "8", "9"}

DigitValue(ch) ==
    CASE ch = "0" -> 0 [] ch = "1" -> 1 [] ch = "2" -> 2 [] ch = "3" -> 3
      [] ch = "4" -> 4 [] ch = "5" -> 5 [] ch = "6" -> 6 [] ch = "7" -> 7
      [] ch = "8" -> 8 [] ch = "9" -> 9

RECURSIVE SplitFrom(_, _, _)
SplitFrom(s, i, cur) ==
    IF i > Len(s) THEN <<cur>>
    ELSE IF s[i] = " " THEN <<cur>> \o SplitFrom(s, i + 1, <<>>)
    ELSE SplitFrom(s, i + 1, Append(cur, s[i]))

\* the labels of a path string, split at the spaces
LabelsOf(s) == IF s = <<>> THEN <<>> ELSE SplitFrom(s, 1, <<>>)

\* how many digits a label starts with
NumDigits(lab) ==
    LET stops == {i \in 1..Len(lab) : ~IsDigit(lab[i])}
    IN  IF stops = {} THEN Len(lab)
        ELSE (CHOOSE i \in stops : \A j \in stops : i <= j) - 1

RECURSIVE DecimalValue(_)
DecimalValue(ds) ==
    IF ds = <<>> THEN 0
    ELSE 10 * DecimalValue(SubSeq(ds, 1, Len(ds) - 1)) + DigitValue(ds[Len(ds)])

LabelDistance(lab) == DecimalValue(SubSeq(lab, 1, NumDigits(lab)))
LabelDirection(lab) == SubSeq(lab, NumDigits(lab) + 1, Len(lab))

\* a label is a distance >= 1 followed by one of the nine directions
WellFormedLabel(lab) ==
    /\ NumDigits(lab) >= 1
    /\ LabelDistance(lab) >= 1
    /\ Upper(LabelDirection(lab)) \in DOMAIN directions

LabelDelta(lab) == directions[Upper(LabelDirection(lab))]

\* the cell j unit steps along the label's direction from pos
Along(pos, lab, j) ==
    <<pos[1] + j * LabelDelta(lab)[1], pos[2] + j * LabelDelta(lab)[2]>>

RECURSIVE Landings(_, _)
\* the cells the labels land on, one per label, walking from pos
Landings(pos, labels) ==
    IF labels = <<>> THEN <<>>
    ELSE LET q == Along(pos, labels[1], LabelDistance(labels[1]))
         IN  <<q>> \o Landings(q, Tail(labels))

\* the origin followed by the landing cell of each label
Visits(labels) == <<<<0, 0>>>> \o Landings(<<0, 0>>, labels)

InGrid(pos) == pos[1] \in 0..(rows - 1) /\ pos[2] \in 0..(cols - 1)
Target == <<rows - 1, cols - 1>>
ColorAt(pos) == SliceTo1(graph[pos[1]][pos[2]])

ReturnedLabels == LabelsOf(result)

(***************************************************************************)
(* C1: a returned path, replayed from the origin one unit step at a time,  *)
(* stays inside the grid and ends exactly on the target.                   *)
(***************************************************************************)
C1_ReplayReachesTarget ==
    outcome = "found" =>
        LET labels == ReturnedLabels
            visits == Visits(labels)
        IN  /\ Len(labels) >= 1
            /\ \A i \in 1..Len(labels) : WellFormedLabel(labels[i])
            /\ \A i \in 1..Len(labels) :
                 \A j \in 1..LabelDistance(labels[i]) :
                    InGrid(Along(visits[i], labels[i], j))
            /\ visits[Len(visits)] = Target

\* a path of several labels, one of them more than one cell long, was returned
C1_Witness ==
    /\ outcome = "found"
    /\ Len(ReturnedLabels) >= 3
    /\ \E i \in 1..Len(ReturnedLabels) : LabelDistance(ReturnedLabels[i]) >= 2

(***************************************************************************)
(* C2: on the 3 x 4 example grid the search returns "1S 1E 2E 1S".        *)
(***************************************************************************)
C2_ExamplePath ==
    (graph = ExampleGrid /\ pc = "done") =>
        /\ outcome = "found"
        /\ result = <<"1", "S", " ", "1", "E", " ", "2", "E", " ", "1", "S">>

C2_Witness == graph = ExampleGrid /\ pc = "done" /\ Len(attempts) >= 2

(***************************************************************************)
(* C3 (as claimed): the origin followed by the landing cells of a returned *)
(* path holds no cell twice.  Stated for the grids of more than one cell.  *)
(***************************************************************************)
C3_NoRepeatedPosition ==
    (outcome = "found" /\ rows * cols > 1) =>
        LET visits == Visits(ReturnedLabels)
        IN  \A i, j \in 1..Len(visits) : i # j => visits[i] # visits[j]

(***************************************************************************)
(* C4 (as claimed): every label of a returned path, the last included,     *)
(* goes from a cell of one colour to a cell of another colour.  Stated for *)
(* the grids of more than one cell.                                        *)
(***************************************************************************)
C4_EveryLabelChangesColor ==
    (outcome = "found" /\ rows * cols > 1) =>
        LET labels == ReturnedLabels
            visits == Visits(labels)
        IN  \A i \in 1..Len(labels) : ColorAt(visits[i]) # ColorAt(visits[i + 1])

(***************************************************************************)
(* C4 (amended): every label of a returned path but the last goes from a   *)
(* cell of one colour to a cell of another colour; the last label, the     *)
(* step onto the target, carries no colour condition.                      *)
(***************************************************************************)
C4_InnerLabelsChangeColor ==
    outcome = "found" =>
        LET labels == ReturnedLabels
            visits == Visits(labels)
        IN  \A i \in 1..(Len(labels) - 1) : ColorAt(visits[i]) # ColorAt(visits[i + 1])

\* a path of several labels whose last step joins two cells of one colour
C4_Witness ==
    /\ outcome = "found"
    /\ Len(ReturnedLabels) >= 3
    /\ LET visits == Visits(ReturnedLabels)
       IN  ColorAt(visits[Len(visits) - 1]) = ColorAt(visits[Len(visits)])

(***************************************************************************)
(* Routes of a grid, from the movement rule alone (no search).             *)
(***************************************************************************)
Cells == (0..(rows - 1)) \X (0..(cols - 1))

DirectionAt(pos) == SliceFrom2(graph[pos[1]][pos[2]])
Recognized(pos) == Upper(DirectionAt(pos)) \in DOMAIN directions
DeltaAt(pos) == directions[Upper(DirectionAt(pos))]
Ahead(pos, k) == <<pos[1] + k * DeltaAt(pos)[1], pos[2] + k * DeltaAt(pos)[2]>>

\* no ray of a grid is longer than this
MaxRay == rows + cols

\* pos can make a step of k cells: its direction is recognized and the k
\* cells ahead are in the grid
CanStep(pos, k) == Recognized(pos) /\ \A j \in 1..k : InGrid(Ahead(pos, j))

\* the cells one colour-changing step away from pos
ColorSteps(pos) ==
    { q \in Cells : \E k \in 1..MaxRay :
        CanStep(pos, k) /\ q = Ahead(pos, k) /\ ColorAt(q) # ColorAt(pos) }

RECURSIVE ColorReach(_)
\* the cells reached from the cells of S by colour-changing steps
ColorReach(S) ==
    LET more == S \cup UNION { ColorSteps(p) : p \in S \ {Target} }
    IN  IF more = S THEN S ELSE ColorReach(more)

\* a route in which every step, the last included, changes colour
RouteExists ==
    \E p \in ColorReach({<<0, 0>>}) : Target \in ColorSteps(p)

\* the cells one colour-changing step away from pos on a ray that has not
\* met the target
InnerSteps(pos) ==
    { q \in Cells : \E k \in 1..MaxRay :
        /\ CanStep(pos, k)
        /\ q = Ahead(pos, k)
        /\ ColorAt(q) # ColorAt(pos)
        /\ \A j \in 1..k : Ahead(pos, j) # Target }

RECURSIVE InnerReach(_)
InnerReach(S) ==
    LET more == S \cup UNION { InnerSteps(p) : p \in S }
    IN  IF more = S THEN S ELSE InnerReach(more)

\* a way to the target: colour-changing steps, then one step of any colour
\* onto the target
WayExists ==
    \E p \in InnerReach({<<0, 0>>}) :
        \E k \in 1..MaxRay : CanStep(p, k) /\ Ahead(p, k) = Target

\* every cell but the target carries a recognized direction
OthersRecognized == \A p \in Cells \ {Target} : Recognized(p)

\* every cell the search can expand carries a recognized direction: all but
\* the target, and the target too when it is the origin
ExpandableRecognized == \A p \in (Cells \ {Target}) \cup {<<0, 0>>} : Recognized(p)

(***************************************************************************)
(* C5: a grid whose cells other than the target carry recognized           *)
(* directions and which has a route of colour-changing steps from the      *)
(* origin to the target is never answered with the sentinel: the search    *)
(* ends with a path.                                                       *)
(***************************************************************************)
C5_SolvableIsSolved ==
    (pc = "done" /\ OthersRecognized /\ RouteExists) => outcome = "found"

\* a grid with a route whose path was found only at max_depth 7
C5_Witness ==
    /\ pc = "done"
    /\ OthersRecognized
    /\ RouteExists
    /\ outcome = "found"
    /\ Len(attempts) >= 7

C7_OneCellGridEmptyPath ==
    (rows = 1 /\ cols = 1 /\ pc = "done") =>
        (outcome = "found" /\ ReturnedLabels = <<>>)

(***************************************************************************)
(* C8 (as claimed): a grid with a cell "<color>-<direction>" whose         *)
(* direction is not one of the nine is answered with the lookup error,     *)
(* never with a path or the sentinel.                                      *)
(***************************************************************************)
HasBadToken ==
    \E p \in Cells : Len(graph[p[1]][p[2]]) > 2 /\ ~Recognized(p)

C8_BadTokenAlwaysRaises ==
    (HasBadToken /\ pc = "done") => outcome = "KeyError"

(***************************************************************************)
(* C9: a step on a cell whose direction is none of the nine labels (in     *)
(* any case) ends the search with the lookup error: nothing is pushed and  *)
(* no path is returned.                                                    *)
(***************************************************************************)
C9_UnknownDirectionRaises ==
    [][(pc = "step" /\ Upper(cur_dir) \notin DOMAIN directions) =>
          /\ outcome' = "KeyError"
          /\ pc' = "done"
          /\ stack' = stack
          /\ result' = result
          /\ attempts' = attempts]_vars

\* the error was raised on a cell reached by a step of the search
C9_Witness ==
    /\ outcome = "KeyError"
    /\ cur_dir = <<"X">>
    /\ Len(current.path) >= 1

(***************************************************************************)
(* C10: the Explorer is called at max_depth 1, 2, 3, ... in this order, at *)
(* most up to rows*cols; every call before the last one failed, and a      *)
(* call that succeeds is the last one: its path is the returned result.    *)
(***************************************************************************)
C10_ShallowestDepthFirst ==
    /\ \A i \in 1..Len(attempts) : attempts[i].depth = i /\ i <= rows * cols
    /\ \A i \in 1..(Len(attempts) - 1) : ~attempts[i].found
    /\ pc \in {"explore", "step"} => max_depth = Len(attempts) + 1
    /\ outcome = "found" =>
         /\ Len(attempts) >= 1
         /\ attempts[Len(attempts)] = [depth |-> max_depth, found |-> TRUE]
    /\ (Len(attempts) >= 1 /\ attempts[Len(attempts)].found) =>
         (pc = "done" /\ outcome = "found")

\* a path found at the third depth or later
C10_Witness ==
    /\ outcome = "found"
    /\ Len(attempts) >= 3
    /\ max_depth < rows * cols

(***************************************************************************)
(* C11: the search never changes the grid, and what the Explorer answers   *)
(* at a depth within a run of the Driver is what it answers for the grid   *)
(* and that depth alone, whatever was searched at the depths before.       *)
(***************************************************************************)
AnswersByDepthAlone ==
    pc = "done" =>
        /\ \A i \in 1..Len(attempts) :
             attempts[i].found = (explore_maze_depth_limited(i, TRUE).kind = "found")
        /\ outcome = "found" => result = explore_maze_depth_limited(max_depth, TRUE).path
        /\ outcome = "KeyError" =>
             explore_maze_depth_limited(max_depth, TRUE).kind = "KeyError"
        /\ outcome = "exhausted" =>
             \A d \in 1..(rows * cols) : explore_maze_depth_limited(d, TRUE).kind = "none"

C11_FunctionOfTheGrid ==
    /\ []AnswersByDepthAlone
    /\ [][graph' = graph /\ rows' = rows /\ cols' = cols]_vars

\* a path found at the fifth depth or later, after four failed searches
C11_Witness ==
    /\ outcome = "found"
    /\ Len(attempts) >= 5
    /\ result = explore_maze_depth_limited(max_depth, TRUE).path

(***************************************************************************)
(* C12: on a grid with recognized directions the search terminates: the    *)
(* stepping loop of a popped node never counts beyond max_depth, the       *)
(* Driver never calls the Explorer more than rows*cols times, and every    *)
(* run reaches the outcome found or exhausted, which it never leaves.      *)
(***************************************************************************)
Terminal == pc = "done" /\ outcome \in {"found", "exhausted"}

C12_Terminates ==
    /\ [](pc = "step" => count \in 1..max_depth)
    /\ [](Len(attempts) <= rows * cols)
    /\ <>(pc = "done")
    /\ []((pc = "done" /\ ExpandableRecognized) => Terminal)
    /\ [][Terminal => (Terminal' /\ outcome' = outcome /\ result' = result)]_vars

\* the stepping loop of a node ran all its max_depth >= 4 iterations and the
\* search went on
C12_Witness ==
    /\ ExpandableRecognized
    /\ pc = "explore"
    /\ count = max_depth
    /\ max_depth >= 4
    /\ InGrid(Ahead(<<row, col>>, 1))

(***************************************************************************)
(* C13 (as claimed): at every max_depth at which the Explorer without the  *)
(* Manhattan test finds a path, the Explorer with the test finds one too.  *)
(* Stated for the grids with recognized directions.                        *)
(***************************************************************************)
C13_PruneLosesNoPath ==
    (pc = "done" /\ ExpandableRecognized) =>
        \A d \in 1..(rows * cols) :
            explore_maze_depth_limited(d, FALSE).kind = "found" =>
                explore_maze_depth_limited(d, TRUE).kind = "found"

(***************************************************************************)
(* C14 (as claimed): the visited set of every node on the stack, the       *)
(* initial node included, holds the origin (0,0) and the node's own        *)
(* position.                                                               *)
(***************************************************************************)
C14_VisitedHoldsOriginAndSelf ==
    \A i \in 1..Len(stack) :
        /\ <<0, 0>> \in stack[i].explored
        /\ <<stack[i].row, stack[i].col>> \in stack[i].explored

(***************************************************************************)
(* The expansion of the popped node in closed form: the cell k steps ahead *)
(* of the node's own position, without the cursor of the stepping loop.    *)
(***************************************************************************)
NodePos == <<current.row, current.col>>

\* the k cells ahead of the node are in the grid and none is the target
RayClear(k) ==
    /\ Recognized(NodePos)
    /\ \A j \in 1..k : InGrid(Ahead(NodePos, j)) /\ Ahead(NodePos, j) # Target

\* the cell k steps ahead is due to be pushed
ChildDue(k) ==
    /\ RayClear(k)
    /\ ColorAt(Ahead(NodePos, k)) # ColorAt(NodePos)
    /\ Ahead(NodePos, k) \notin current.explored
    /\ current.depth < max_depth
    /\ Abs(Target[1] - Ahead(NodePos, k)[1]) + Abs(Target[2] - Ahead(NodePos, k)[2])
         <= max_depth - k

\* the node pushed for the cell k steps ahead
ChildOf(k) ==
    [row |-> Ahead(NodePos, k)[1],
     col |-> Ahead(NodePos, k)[2],
     explored |-> current.explored \cup {Ahead(NodePos, k)},
     path |-> Append(current.path, PyStr(k) \o DirectionAt(NodePos)),
     depth |-> current.depth + 1]

C16_TargetPriority ==
    [][/\ (/\ pc = "step"
           /\ count \in 1..max_depth
           /\ RayClear(count - 1)
           /\ Ahead(NodePos, count) = Target) =>
              /\ outcome' = "found"
              /\ result' = Join(Append(current.path,
                                       PyStr(count) \o DirectionAt(NodePos)))
              /\ pc' = "done"
              /\ stack' = stack
              /\ current' = current
       /\ outcome # "found"]_vars

\* a path was returned from a node whose cell has the colour of the target,
\* at the third step or later of its ray, while the child pushed at the first
\* step of that ray is still on top of the stack
C16_Witness ==
    /\ outcome = "found"
    /\ pc = "done"
    /\ count >= 3
    /\ ColorAt(Target) = ColorAt(NodePos)
    /\ stack # <<>>
    /\ stack[Len(stack)].path = Append(current.path, PyStr(1) \o DirectionAt(NodePos))

(***************************************************************************)
(* C17: when the cell count steps ahead of the popped node lies outside    *)
(* the grid, the step ends the stepping loop of that node and nothing      *)
(* else: the stack, the outcome, the result, the attempts and the depth    *)
(* limit stay as they are, and the Explorer is back at its pop.  Every     *)
(* position whose cell is read -- a node on the stack, the popped node,    *)
(* the stepping cursor -- is inside the grid.                              *)
(***************************************************************************)
C17_OutOfBoundsEndsTheRayOnly ==
    /\ [](pc \in {"step", "explore"} =>
            /\ \A i \in 1..Len(stack) : InGrid(<<stack[i].row, stack[i].col>>)
            /\ pc = "step" => (InGrid(NodePos) /\ InGrid(<<row, col>>)))
    /\ [][(/\ pc = "step"
           /\ count \in 1..max_depth
           /\ RayClear(count - 1)
           /\ ~InGrid(Ahead(NodePos, count))) =>
              /\ pc' = "explore"
              /\ stack' = stack
              /\ outcome' = outcome
              /\ result' = result
              /\ attempts' = attempts
              /\ max_depth' = max_depth]_vars

\* the ray of the popped node has just left the grid before its last step,
\* after pushing a child, and other entries wait on the stack
C17_Witness ==
    /\ pc = "explore"
    /\ outcome = "running"
    /\ count \in 2..(max_depth - 1)
    /\ RayClear(count - 1)
    /\ ~InGrid(Ahead(NodePos, count))
    /\ Len(stack) >= 2

\* the token at pos mandates no movement: "<color>-O" or the bare marker "O"
NoMovement(pos) ==
    \/ graph[pos[1]][pos[2]] = <<"O">>
    \/ /\ Len(graph[pos[1]][pos[2]]) = 3
       /\ graph[pos[1]][pos[2]][2] = "-"
       /\ Upper(DirectionAt(pos)) = <<"O">>

(***************************************************************************)
(* C18: while the popped node sits on a cell off the target whose token    *)
(* mandates no movement, every step of the stepping loop tests the node's  *)
(* own position again, pushes nothing, returns nothing and raises nothing: *)
(* the loop runs through count = 1..max_depth and then goes back to the    *)
(* pop.                                                                    *)
(***************************************************************************)
C18_NoMovementIsDeadBranch ==
    [][(pc = "step" /\ NodePos # Target /\ NoMovement(NodePos)) =>
          /\ stack' = stack
          /\ outcome' = outcome
          /\ result' = result
          /\ <<row', col'>> = NodePos
          /\ IF count < max_depth
             THEN pc' = "step" /\ count' = count + 1
             ELSE pc' = "explore"]_vars

\* what a node on the stack is held to: its path has depth - 1 labels with
\* distances in 1..max_depth, the walk of the path from the origin stays in the
\* grid, takes at each cell the direction written in that cell and ends on the
\* node's position, which is in the grid and off the target
NodeInvariant(n) ==
    /\ n.depth \in 1..max_depth
    /\ Len(n.path) = n.depth - 1
    /\ \A i \in 1..Len(n.path) :
          /\ WellFormedLabel(n.path[i])
          /\ LabelDistance(n.path[i]) \in 1..max_depth
    /\ \A i \in 1..Len(n.path) :
          /\ InGrid(Visits(n.path)[i])
          /\ LabelDirection(n.path[i]) = DirectionAt(Visits(n.path)[i])
    /\ Visits(n.path)[Len(n.path) + 1] = <<n.row, n.col>>
    /\ InGrid(<<n.row, n.col>>)
    /\ <<n.row, n.col>> # Target

(***************************************************************************)
(* C19: every node on the stack has a path of depth - 1 labels with        *)
(* 1 <= depth <= max_depth; the path replayed from (0,0) ends on the       *)
(* node's position; each label carries the direction of the cell where its *)
(* step starts and a distance in 1..max_depth; and the node's position is  *)
(* in the grid and is not the target.                                      *)
(***************************************************************************)
C19_StackNodeInvariant ==
    \A i \in 1..Len(stack) : NodeInvariant(stack[i])

(***************************************************************************)
(* C20: on every grid, for every depth limit d >= 1, an Explorer call that *)
(* returns a path at limit d also returns a path at limit d + 1.           *)
(***************************************************************************)
C20_SuccessMonotoneInDepth ==
    pc = "done" =>
        \A d \in 1..(rows * cols) :
            explore_maze_depth_limited(d, TRUE).kind = "found" =>
                explore_maze_depth_limited(d + 1, TRUE).kind = "found"

====
